---- MODULE Spec2Model ----
(***************************************************************************)
(* A model of the two Taegis command line tools:                           *)
(*   export_unparsed_events.py  (query, aggregate, select, export)         *)
(*   validate_parser.py         (read a .PAR file, validate it remotely)   *)
(*                                                                         *)
(* Text is a sequence of one-character strings, so that escaping,          *)
(* stripping, parsing and lexicographic comparison are computed character  *)
(* by character as Python computes them.                                   *)
(***************************************************************************)
EXTENDS Integers, Sequences, FiniteSets, Bags, TLC

VARIABLES
    entry,          \* the function the run starts in
    stdout_unicode, \* standard output encodes every character (UTF-8), or
                    \* the ASCII characters only
    pc,             \* position of the run
    exit_status,    \* <<>> while running, <<n>> after sys.exit(n) or a crash
    stderr,         \* messages printed to standard error, in order
    store,          \* events held by the (mock) Taegis server
    query,          \* text of the query being run by query_events
    caller,         \* who called query_events: "q1", "q2" or "direct"
    pending,        \* rows the server has not served yet for this query
    all_rows,       \* query_events: the accumulator
    next_page,      \* query_events: the cursor variable
    fetch_log,      \* server log: per fetch, the rows and the cursor it sent
    page_calls,     \* server log: the cursors event_page was called with
    queries_ok,     \* number of query_events calls that returned
    queries_raised, \* number of query_events calls that raised
    events,         \* main: result of the first query / argument of a call
    aggregated,     \* the aggregation table, items in insertion order
    displayed,      \* display_aggregated_sources: the numbered list printed
    sorted_sources, \* select_log_source: its local ranked list
    prompts,        \* number of times input() was called
    last_input,     \* what the last input() call delivered
    selected,       \* the key returned by select_log_source
    selected_events,\* main: result of the second query / argument of a call
    file,           \* the output file: [opened, text]
    reported,       \* export_events_to_file: the count in its message
    val             \* validate_parser.py: the validator's run

vars == <<entry, stdout_unicode, pc, exit_status, stderr, store, query, caller, pending,
          all_rows, next_page, fetch_log, page_calls, queries_ok, queries_raised,
          events, aggregated, displayed, sorted_sources, prompts, last_input,
          selected, selected_events, file, reported, val>>

---------------------------------------------------------------------------
(* Bounds of the model *)

\* number of fetches (initial query and pages) the server answers per query
MaxFetches == 3
\* results in one result list
MaxResults == 2
\* rows in one result
MaxRowsPerResult == 2
\* events held by the server in a run of main
MaxStore == 3
\* events passed to aggregate_by_sensor when it is called directly
MaxEvents == 3
\* events passed to export_events_to_file when it is called directly
MaxExport == 3
\* characters in one line typed at the prompt
MaxInputLen == 3
\* lines the user types at the prompt
MaxPrompts == 2
\* rows the server holds when query_events is called directly
TapeLen == 5
\* events aggregated into the table select_log_source is called with
MaxSelectEvents == 2

\* sys.int_info.default_max_str_digits: the number of digits beyond which
\* int() refuses a decimal literal
MaxStrDigits == 4300

---------------------------------------------------------------------------
(* Text: characters, order, conversions *)

\* A character of ASCII is a one-character string; the grave accent and
\* every character beyond ASCII are written by their code point, as in
\* "U+0060", "U+00E9" and "U+2003".

\* The characters str.strip() removes: those str.isspace() is true of.
Whitespace ==
    {"\t", "\n", "", "\f", "\r", "", "", "", "", " ", "U+0085", "U+00A0",
     "U+1680", "U+2000", "U+2001", "U+2002", "U+2003", "U+2004", "U+2005",
     "U+2006", "U+2007", "U+2008", "U+2009", "U+200A", "U+2028", "U+2029",
     "U+202F", "U+205F", "U+3000"}

\* The characters int() ignores around a literal: the whitespace without
\* the four separators U+001C to U+001F.
IntWhitespace == Whitespace \ {"", "", "", ""}

Digits == <<"0", "1", "2", "3", "4", "5", "6", "7", "8", "9">>

\* The decimal digits int() reads (Unicode category Nd), one row per
\* script, each row holding the digits 0 to 9 in order.
DecimalDigits ==
    <<
      <<"0", "1", "2", "3", "4", "5", "6", "7", "8", "9">>,
      <<"U+0660", "U+0661", "U+0662", "U+0663", "U+0664", "U+0665", "U+0666",
        "U+0667", "U+0668", "U+0669">>,
      <<"U+06F0", "U+06F1", "U+06F2", "U+06F3", "U+06F4", "U+06F5", "U+06F6",
        "U+06F7", "U+06F8", "U+06F9">>,
      <<"U+07C0", "U+07C1", "U+07C2", "U+07C3", "U+07C4", "U+07C5", "U+07C6",
        "U+07C7", "U+07C8", "U+07C9">>,
      <<"U+0966", "U+0967", "U+0968", "U+0969", "U+096A", "U+096B", "U+096C",
        "U+096D", "U+096E", "U+096F">>,
      <<"U+09E6", "U+09E7", "U+09E8", "U+09E9", "U+09EA", "U+09EB", "U+09EC",
        "U+09ED", "U+09EE", "U+09EF">>,
      <<"U+0A66", "U+0A67", "U+0A68", "U+0A69", "U+0A6A", "U+0A6B", "U+0A6C",
        "U+0A6D", "U+0A6E", "U+0A6F">>,
      <<"U+0AE6", "U+0AE7", "U+0AE8", "U+0AE9", "U+0AEA", "U+0AEB", "U+0AEC",
        "U+0AED", "U+0AEE", "U+0AEF">>,
      <<"U+0B66", "U+0B67", "U+0B68", "U+0B69", "U+0B6A", "U+0B6B", "U+0B6C",
        "U+0B6D", "U+0B6E", "U+0B6F">>,
      <<"U+0BE6", "U+0BE7", "U+0BE8", "U+0BE9", "U+0BEA", "U+0BEB", "U+0BEC",
        "U+0BED", "U+0BEE", "U+0BEF">>,
      <<"U+0C66", "U+0C67", "U+0C68", "U+0C69", "U+0C6A", "U+0C6B", "U+0C6C",
        "U+0C6D", "U+0C6E", "U+0C6F">>,
      <<"U+0CE6", "U+0CE7", "U+0CE8", "U+0CE9", "U+0CEA", "U+0CEB", "U+0CEC",
        "U+0CED", "U+0CEE", "U+0CEF">>,
      <<"U+0D66", "U+0D67", "U+0D68", "U+0D69", "U+0D6A", "U+0D6B", "U+0D6C",
        "U+0D6D", "U+0D6E", "U+0D6F">>,
      <<"U+0DE6", "U+0DE7", "U+0DE8", "U+0DE9", "U+0DEA", "U+0DEB", "U+0DEC",
        "U+0DED", "U+0DEE", "U+0DEF">>,
      <<"U+0E50", "U+0E51", "U+0E52", "U+0E53", "U+0E54", "U+0E55", "U+0E56",
        "U+0E57", "U+0E58", "U+0E59">>,
      <<"U+0ED0", "U+0ED1", "U+0ED2", "U+0ED3", "U+0ED4", "U+0ED5", "U+0ED6",
        "U+0ED7", "U+0ED8", "U+0ED9">>,
      <<"U+0F20", "U+0F21", "U+0F22", "U+0F23", "U+0F24", "U+0F25", "U+0F26",
        "U+0F27", "U+0F28", "U+0F29">>,
      <<"U+1040", "U+1041", "U+1042", "U+1043", "U+1044", "U+1045", "U+1046",
        "U+1047", "U+1048", "U+1049">>,
      <<"U+1090", "U+1091", "U+1092", "U+1093", "U+1094", "U+1095", "U+1096",
        "U+1097", "U+1098", "U+1099">>,
      <<"U+17E0", "U+17E1", "U+17E2", "U+17E3", "U+17E4", "U+17E5", "U+17E6",
        "U+17E7", "U+17E8", "U+17E9">>,
      <<"U+1810", "U+1811", "U+1812", "U+1813", "U+1814", "U+1815", "U+1816",
        "U+1817", "U+1818", "U+1819">>,
      <<"U+1946", "U+1947", "U+1948", "U+1949", "U+194A", "U+194B", "U+194C",
        "U+194D", "U+194E", "U+194F">>,
      <<"U+19D0", "U+19D1", "U+19D2", "U+19D3", "U+19D4", "U+19D5", "U+19D6",
        "U+19D7", "U+19D8", "U+19D9">>,
      <<"U+1A80", "U+1A81", "U+1A82", "U+1A83", "U+1A84", "U+1A85", "U+1A86",
        "U+1A87", "U+1A88", "U+1A89">>,
      <<"U+1A90", "U+1A91", "U+1A92", "U+1A93", "U+1A94", "U+1A95", "U+1A96",
        "U+1A97", "U+1A98", "U+1A99">>,
      <<"U+1B50", "U+1B51", "U+1B52", "U+1B53", "U+1B54", "U+1B55", "U+1B56",
        "U+1B57", "U+1B58", "U+1B59">>,
      <<"U+1BB0", "U+1BB1", "U+1BB2", "U+1BB3", "U+1BB4", "U+1BB5", "U+1BB6",
        "U+1BB7", "U+1BB8", "U+1BB9">>,
      <<"U+1C40", "U+1C41", "U+1C42", "U+1C43", "U+1C44", "U+1C45", "U+1C46",
        "U+1C47", "U+1C48", "U+1C49">>,
      <<"U+1C50", "U+1C51", "U+1C52", "U+1C53", "U+1C54", "U+1C55", "U+1C56",
        "U+1C57", "U+1C58", "U+1C59">>,
      <<"U+A620", "U+A621", "U+A622", "U+A623", "U+A624", "U+A625", "U+A626",
        "U+A627", "U+A628", "U+A629">>,
      <<"U+A8D0", "U+A8D1", "U+A8D2", "U+A8D3", "U+A8D4", "U+A8D5", "U+A8D6",
        "U+A8D7", "U+A8D8", "U+A8D9">>,
      <<"U+A900", "U+A901", "U+A902", "U+A903", "U+A904", "U+A905", "U+A906",
        "U+A907", "U+A908", "U+A909">>,
      <<"U+A9D0", "U+A9D1", "U+A9D2", "U+A9D3", "U+A9D4", "U+A9D5", "U+A9D6",
        "U+A9D7", "U+A9D8", "U+A9D9">>,
      <<"U+A9F0", "U+A9F1", "U+A9F2", "U+A9F3", "U+A9F4", "U+A9F5", "U+A9F6",
        "U+A9F7", "U+A9F8", "U+A9F9">>,
      <<"U+AA50", "U+AA51", "U+AA52", "U+AA53", "U+AA54", "U+AA55", "U+AA56",
        "U+AA57", "U+AA58", "U+AA59">>,
      <<"U+ABF0", "U+ABF1", "U+ABF2", "U+ABF3", "U+ABF4", "U+ABF5", "U+ABF6",
        "U+ABF7", "U+ABF8", "U+ABF9">>,
      <<"U+FF10", "U+FF11", "U+FF12", "U+FF13", "U+FF14", "U+FF15", "U+FF16",
        "U+FF17", "U+FF18", "U+FF19">>,
      <<"U+104A0", "U+104A1", "U+104A2", "U+104A3", "U+104A4", "U+104A5",
        "U+104A6", "U+104A7", "U+104A8", "U+104A9">>,
      <<"U+10D30", "U+10D31", "U+10D32", "U+10D33", "U+10D34", "U+10D35",
        "U+10D36", "U+10D37", "U+10D38", "U+10D39">>,
      <<"U+11066", "U+11067", "U+11068", "U+11069", "U+1106A", "U+1106B",
        "U+1106C", "U+1106D", "U+1106E", "U+1106F">>,
      <<"U+110F0", "U+110F1", "U+110F2", "U+110F3", "U+110F4", "U+110F5",
        "U+110F6", "U+110F7", "U+110F8", "U+110F9">>,
      <<"U+11136", "U+11137", "U+11138", "U+11139", "U+1113A", "U+1113B",
        "U+1113C", "U+1113D", "U+1113E", "U+1113F">>,
      <<"U+111D0", "U+111D1", "U+111D2", "U+111D3", "U+111D4", "U+111D5",
        "U+111D6", "U+111D7", "U+111D8", "U+111D9">>,
      <<"U+112F0", "U+112F1", "U+112F2", "U+112F3", "U+112F4", "U+112F5",
        "U+112F6", "U+112F7", "U+112F8", "U+112F9">>,
      <<"U+11450", "U+11451", "U+11452", "U+11453", "U+11454", "U+11455",
        "U+11456", "U+11457", "U+11458", "U+11459">>,
      <<"U+114D0", "U+114D1", "U+114D2", "U+114D3", "U+114D4", "U+114D5",
        "U+114D6", "U+114D7", "U+114D8", "U+114D9">>,
      <<"U+11650", "U+11651", "U+11652", "U+11653", "U+11654", "U+11655",
        "U+11656", "U+11657", "U+11658", "U+11659">>,
      <<"U+116C0", "U+116C1", "U+116C2", "U+116C3", "U+116C4", "U+116C5",
        "U+116C6", "U+116C7", "U+116C8", "U+116C9">>,
      <<"U+11730", "U+11731", "U+11732", "U+11733", "U+11734", "U+11735",
        "U+11736", "U+11737", "U+11738", "U+11739">>,
      <<"U+118E0", "U+118E1", "U+118E2", "U+118E3", "U+118E4", "U+118E5",
        "U+118E6", "U+118E7", "U+118E8", "U+118E9">>,
      <<"U+11950", "U+11951", "U+11952", "U+11953", "U+11954", "U+11955",
        "U+11956", "U+11957", "U+11958", "U+11959">>,
      <<"U+11C50", "U+11C51", "U+11C52", "U+11C53", "U+11C54", "U+11C55",
        "U+11C56", "U+11C57", "U+11C58", "U+11C59">>,
      <<"U+11D50", "U+11D51", "U+11D52", "U+11D53", "U+11D54", "U+11D55",
        "U+11D56", "U+11D57", "U+11D58", "U+11D59">>,
      <<"U+11DA0", "U+11DA1", "U+11DA2", "U+11DA3", "U+11DA4", "U+11DA5",
        "U+11DA6", "U+11DA7", "U+11DA8", "U+11DA9">>,
      <<"U+16A60", "U+16A61", "U+16A62", "U+16A63", "U+16A64", "U+16A65",
        "U+16A66", "U+16A67", "U+16A68", "U+16A69">>,
      <<"U+16AC0", "U+16AC1", "U+16AC2", "U+16AC3", "U+16AC4", "U+16AC5",
        "U+16AC6", "U+16AC7", "U+16AC8", "U+16AC9">>,
      <<"U+16B50", "U+16B51", "U+16B52", "U+16B53", "U+16B54", "U+16B55",
        "U+16B56", "U+16B57", "U+16B58", "U+16B59">>,
      <<"U+1D7CE", "U+1D7CF", "U+1D7D0", "U+1D7D1", "U+1D7D2", "U+1D7D3",
        "U+1D7D4", "U+1D7D5", "U+1D7D6", "U+1D7D7">>,
      <<"U+1D7D8", "U+1D7D9", "U+1D7DA", "U+1D7DB", "U+1D7DC", "U+1D7DD",
        "U+1D7DE", "U+1D7DF", "U+1D7E0", "U+1D7E1">>,
      <<"U+1D7E2", "U+1D7E3", "U+1D7E4", "U+1D7E5", "U+1D7E6", "U+1D7E7",
        "U+1D7E8", "U+1D7E9", "U+1D7EA", "U+1D7EB">>,
      <<"U+1D7EC", "U+1D7ED", "U+1D7EE", "U+1D7EF", "U+1D7F0", "U+1D7F1",
        "U+1D7F2", "U+1D7F3", "U+1D7F4", "U+1D7F5">>,
      <<"U+1D7F6", "U+1D7F7", "U+1D7F8", "U+1D7F9", "U+1D7FA", "U+1D7FB",
        "U+1D7FC", "U+1D7FD", "U+1D7FE", "U+1D7FF">>,
      <<"U+1E140", "U+1E141", "U+1E142", "U+1E143", "U+1E144", "U+1E145",
        "U+1E146", "U+1E147", "U+1E148", "U+1E149">>,
      <<"U+1E2F0", "U+1E2F1", "U+1E2F2", "U+1E2F3", "U+1E2F4", "U+1E2F5",
        "U+1E2F6", "U+1E2F7", "U+1E2F8", "U+1E2F9">>,
      <<"U+1E950", "U+1E951", "U+1E952", "U+1E953", "U+1E954", "U+1E955",
        "U+1E956", "U+1E957", "U+1E958", "U+1E959">>,
      <<"U+1FBF0", "U+1FBF1", "U+1FBF2", "U+1FBF3", "U+1FBF4", "U+1FBF5",
        "U+1FBF6", "U+1FBF7", "U+1FBF8", "U+1FBF9">>
    >>

DigitSet ==
    {DecimalDigits[r][d] : r \in 1..Len(DecimalDigits), d \in 1..10}

IsDigit(c) == c \in DigitSet

DigitVal(c) ==
    (CHOOSE d \in 1..10 :
        \E r \in 1..Len(DecimalDigits) : DecimalDigits[r][d] = c) - 1

\* The printable ASCII characters, the whitespace, the digits and one
\* letter beyond ASCII, in code point order (the order Python compares str
\* by).
Alphabet ==
    <<"\t", "\n", "", "\f", "\r", "", "", "", "", " ", "!", "\"", "#",
      "$", "%", "&", "'", "(", ")", "*", "+", ",", "-", ".", "/", "0", "1",
      "2", "3", "4", "5", "6", "7", "8", "9", ":", ";", "<", "=", ">", "?",
      "@", "A", "B", "C", "D", "E", "F", "G", "H", "I", "J", "K", "L", "M",
      "N", "O", "P", "Q", "R", "S", "T", "U", "V", "W", "X", "Y", "Z", "[",
      "\\", "]", "^", "_", "U+0060", "a", "b", "c", "d", "e", "f", "g", "h",
      "i", "j", "k", "l", "m", "n", "o", "p", "q", "r", "s", "t", "u", "v",
      "w", "x", "y", "z", "{", "|", "}", "~", "U+0085", "U+00A0", "U+00E9",
      "U+0660", "U+0661", "U+0662", "U+0663", "U+0664", "U+0665", "U+0666",
      "U+0667", "U+0668", "U+0669", "U+06F0", "U+06F1", "U+06F2", "U+06F3",
      "U+06F4", "U+06F5", "U+06F6", "U+06F7", "U+06F8", "U+06F9", "U+07C0",
      "U+07C1", "U+07C2", "U+07C3", "U+07C4", "U+07C5", "U+07C6", "U+07C7",
      "U+07C8", "U+07C9", "U+0966", "U+0967", "U+0968", "U+0969", "U+096A",
      "U+096B", "U+096C", "U+096D", "U+096E", "U+096F", "U+09E6", "U+09E7",
      "U+09E8", "U+09E9", "U+09EA", "U+09EB", "U+09EC", "U+09ED", "U+09EE",
      "U+09EF", "U+0A66", "U+0A67", "U+0A68", "U+0A69", "U+0A6A", "U+0A6B",
      "U+0A6C", "U+0A6D", "U+0A6E", "U+0A6F", "U+0AE6", "U+0AE7", "U+0AE8",
      "U+0AE9", "U+0AEA", "U+0AEB", "U+0AEC", "U+0AED", "U+0AEE", "U+0AEF",
      "U+0B66", "U+0B67", "U+0B68", "U+0B69", "U+0B6A", "U+0B6B", "U+0B6C",
      "U+0B6D", "U+0B6E", "U+0B6F", "U+0BE6", "U+0BE7", "U+0BE8", "U+0BE9",
      "U+0BEA", "U+0BEB", "U+0BEC", "U+0BED", "U+0BEE", "U+0BEF", "U+0C66",
      "U+0C67", "U+0C68", "U+0C69", "U+0C6A", "U+0C6B", "U+0C6C", "U+0C6D",
      "U+0C6E", "U+0C6F", "U+0CE6", "U+0CE7", "U+0CE8", "U+0CE9", "U+0CEA",
      "U+0CEB", "U+0CEC", "U+0CED", "U+0CEE", "U+0CEF", "U+0D66", "U+0D67",
      "U+0D68", "U+0D69", "U+0D6A", "U+0D6B", "U+0D6C", "U+0D6D", "U+0D6E",
      "U+0D6F", "U+0DE6", "U+0DE7", "U+0DE8", "U+0DE9", "U+0DEA", "U+0DEB",
      "U+0DEC", "U+0DED", "U+0DEE", "U+0DEF", "U+0E50", "U+0E51", "U+0E52",
      "U+0E53", "U+0E54", "U+0E55", "U+0E56", "U+0E57", "U+0E58", "U+0E59",
      "U+0ED0", "U+0ED1", "U+0ED2", "U+0ED3", "U+0ED4", "U+0ED5", "U+0ED6",
      "U+0ED7", "U+0ED8", "U+0ED9", "U+0F20", "U+0F21", "U+0F22", "U+0F23",
      "U+0F24", "U+0F25", "U+0F26", "U+0F27", "U+0F28", "U+0F29", "U+1040",
      "U+1041", "U+1042", "U+1043", "U+1044", "U+1045", "U+1046", "U+1047",
      "U+1048", "U+1049", "U+1090", "U+1091", "U+1092", "U+1093", "U+1094",
      "U+1095", "U+1096", "U+1097", "U+1098", "U+1099", "U+1680", "U+17E0",
      "U+17E1", "U+17E2", "U+17E3", "U+17E4", "U+17E5", "U+17E6", "U+17E7",
      "U+17E8", "U+17E9", "U+1810", "U+1811", "U+1812", "U+1813", "U+1814",
      "U+1815", "U+1816", "U+1817", "U+1818", "U+1819", "U+1946", "U+1947",
      "U+1948", "U+1949", "U+194A", "U+194B", "U+194C", "U+194D", "U+194E",
      "U+194F", "U+19D0", "U+19D1", "U+19D2", "U+19D3", "U+19D4", "U+19D5",
      "U+19D6", "U+19D7", "U+19D8", "U+19D9", "U+1A80", "U+1A81", "U+1A82",
      "U+1A83", "U+1A84", "U+1A85", "U+1A86", "U+1A87", "U+1A88", "U+1A89",
      "U+1A90", "U+1A91", "U+1A92", "U+1A93", "U+1A94", "U+1A95", "U+1A96",
      "U+1A97", "U+1A98", "U+1A99", "U+1B50", "U+1B51", "U+1B52", "U+1B53",
      "U+1B54", "U+1B55", "U+1B56", "U+1B57", "U+1B58", "U+1B59", "U+1BB0",
      "U+1BB1", "U+1BB2", "U+1BB3", "U+1BB4", "U+1BB5", "U+1BB6", "U+1BB7",
      "U+1BB8", "U+1BB9", "U+1C40", "U+1C41", "U+1C42", "U+1C43", "U+1C44",
      "U+1C45", "U+1C46", "U+1C47", "U+1C48", "U+1C49", "U+1C50", "U+1C51",
      "U+1C52", "U+1C53", "U+1C54", "U+1C55", "U+1C56", "U+1C57", "U+1C58",
      "U+1C59", "U+2000", "U+2001", "U+2002", "U+2003", "U+2004", "U+2005",
      "U+2006", "U+2007", "U+2008", "U+2009", "U+200A", "U+2028", "U+2029",
      "U+202F", "U+205F", "U+3000", "U+A620", "U+A621", "U+A622", "U+A623",
      "U+A624", "U+A625", "U+A626", "U+A627", "U+A628", "U+A629", "U+A8D0",
      "U+A8D1", "U+A8D2", "U+A8D3", "U+A8D4", "U+A8D5", "U+A8D6", "U+A8D7",
      "U+A8D8", "U+A8D9", "U+A900", "U+A901", "U+A902", "U+A903", "U+A904",
      "U+A905", "U+A906", "U+A907", "U+A908", "U+A909", "U+A9D0", "U+A9D1",
      "U+A9D2", "U+A9D3", "U+A9D4", "U+A9D5", "U+A9D6", "U+A9D7", "U+A9D8",
      "U+A9D9", "U+A9F0", "U+A9F1", "U+A9F2", "U+A9F3", "U+A9F4", "U+A9F5",
      "U+A9F6", "U+A9F7", "U+A9F8", "U+A9F9", "U+AA50", "U+AA51", "U+AA52",
      "U+AA53", "U+AA54", "U+AA55", "U+AA56", "U+AA57", "U+AA58", "U+AA59",
      "U+ABF0", "U+ABF1", "U+ABF2", "U+ABF3", "U+ABF4", "U+ABF5", "U+ABF6",
      "U+ABF7", "U+ABF8", "U+ABF9", "U+FF10", "U+FF11", "U+FF12", "U+FF13",
      "U+FF14", "U+FF15", "U+FF16", "U+FF17", "U+FF18", "U+FF19", "U+104A0",
      "U+104A1", "U+104A2", "U+104A3", "U+104A4", "U+104A5", "U+104A6",
      "U+104A7", "U+104A8", "U+104A9", "U+10D30", "U+10D31", "U+10D32",
      "U+10D33", "U+10D34", "U+10D35", "U+10D36", "U+10D37", "U+10D38",
      "U+10D39", "U+11066", "U+11067", "U+11068", "U+11069", "U+1106A",
      "U+1106B", "U+1106C", "U+1106D", "U+1106E", "U+1106F", "U+110F0",
      "U+110F1", "U+110F2", "U+110F3", "U+110F4", "U+110F5", "U+110F6",
      "U+110F7", "U+110F8", "U+110F9", "U+11136", "U+11137", "U+11138",
      "U+11139", "U+1113A", "U+1113B", "U+1113C", "U+1113D", "U+1113E",
      "U+1113F", "U+111D0", "U+111D1", "U+111D2", "U+111D3", "U+111D4",
      "U+111D5", "U+111D6", "U+111D7", "U+111D8", "U+111D9", "U+112F0",
      "U+112F1", "U+112F2", "U+112F3", "U+112F4", "U+112F5", "U+112F6",
      "U+112F7", "U+112F8", "U+112F9", "U+11450", "U+11451", "U+11452",
      "U+11453", "U+11454", "U+11455", "U+11456", "U+11457", "U+11458",
      "U+11459", "U+114D0", "U+114D1", "U+114D2", "U+114D3", "U+114D4",
      "U+114D5", "U+114D6", "U+114D7", "U+114D8", "U+114D9", "U+11650",
      "U+11651", "U+11652", "U+11653", "U+11654", "U+11655", "U+11656",
      "U+11657", "U+11658", "U+11659", "U+116C0", "U+116C1", "U+116C2",
      "U+116C3", "U+116C4", "U+116C5", "U+116C6", "U+116C7", "U+116C8",
      "U+116C9", "U+11730", "U+11731", "U+11732", "U+11733", "U+11734",
      "U+11735", "U+11736", "U+11737", "U+11738", "U+11739", "U+118E0",
      "U+118E1", "U+118E2", "U+118E3", "U+118E4", "U+118E5", "U+118E6",
      "U+118E7", "U+118E8", "U+118E9", "U+11950", "U+11951", "U+11952",
      "U+11953", "U+11954", "U+11955", "U+11956", "U+11957", "U+11958",
      "U+11959", "U+11C50", "U+11C51", "U+11C52", "U+11C53", "U+11C54",
      "U+11C55", "U+11C56", "U+11C57", "U+11C58", "U+11C59", "U+11D50",
      "U+11D51", "U+11D52", "U+11D53", "U+11D54", "U+11D55", "U+11D56",
      "U+11D57", "U+11D58", "U+11D59", "U+11DA0", "U+11DA1", "U+11DA2",
      "U+11DA3", "U+11DA4", "U+11DA5", "U+11DA6", "U+11DA7", "U+11DA8",
      "U+11DA9", "U+16A60", "U+16A61", "U+16A62", "U+16A63", "U+16A64",
      "U+16A65", "U+16A66", "U+16A67", "U+16A68", "U+16A69", "U+16AC0",
      "U+16AC1", "U+16AC2", "U+16AC3", "U+16AC4", "U+16AC5", "U+16AC6",
      "U+16AC7", "U+16AC8", "U+16AC9", "U+16B50", "U+16B51", "U+16B52",
      "U+16B53", "U+16B54", "U+16B55", "U+16B56", "U+16B57", "U+16B58",
      "U+16B59", "U+1D7CE", "U+1D7CF", "U+1D7D0", "U+1D7D1", "U+1D7D2",
      "U+1D7D3", "U+1D7D4", "U+1D7D5", "U+1D7D6", "U+1D7D7", "U+1D7D8",
      "U+1D7D9", "U+1D7DA", "U+1D7DB", "U+1D7DC", "U+1D7DD", "U+1D7DE",
      "U+1D7DF", "U+1D7E0", "U+1D7E1", "U+1D7E2", "U+1D7E3", "U+1D7E4",
      "U+1D7E5", "U+1D7E6", "U+1D7E7", "U+1D7E8", "U+1D7E9", "U+1D7EA",
      "U+1D7EB", "U+1D7EC", "U+1D7ED", "U+1D7EE", "U+1D7EF", "U+1D7F0",
      "U+1D7F1", "U+1D7F2", "U+1D7F3", "U+1D7F4", "U+1D7F5", "U+1D7F6",
      "U+1D7F7", "U+1D7F8", "U+1D7F9", "U+1D7FA", "U+1D7FB", "U+1D7FC",
      "U+1D7FD", "U+1D7FE", "U+1D7FF", "U+1E140", "U+1E141", "U+1E142",
      "U+1E143", "U+1E144", "U+1E145", "U+1E146", "U+1E147", "U+1E148",
      "U+1E149", "U+1E2F0", "U+1E2F1", "U+1E2F2", "U+1E2F3", "U+1E2F4",
      "U+1E2F5", "U+1E2F6", "U+1E2F7", "U+1E2F8", "U+1E2F9", "U+1E950",
      "U+1E951", "U+1E952", "U+1E953", "U+1E954", "U+1E955", "U+1E956",
      "U+1E957", "U+1E958", "U+1E959", "U+1FBF0", "U+1FBF1", "U+1FBF2",
      "U+1FBF3", "U+1FBF4", "U+1FBF5", "U+1FBF6", "U+1FBF7", "U+1FBF8",
      "U+1FBF9">>

Ord(c) == CHOOSE i \in 1..Len(Alphabet) : Alphabet[i] = c

\* the character is one of ASCII
IsAscii(c) == Ord(c) <= Ord("~")

\* print(text) succeeds on a standard output that encodes every character
\* (unicode) or the ASCII characters only; otherwise it raises
\* UnicodeEncodeError
CanPrint(unicode, text) ==
    unicode \/ \A i \in 1..Len(text) : IsAscii(text[i])

\* Python's str < str: the first differing character decides, a proper
\* prefix is smaller.
RECURSIVE StrLess(_, _)
StrLess(a, b) ==
    IF b = <<>> THEN FALSE
    ELSE IF a = <<>> THEN TRUE
    ELSE IF Head(a) = Head(b) THEN StrLess(Tail(a), Tail(b))
    ELSE Ord(Head(a)) < Ord(Head(b))

\* str(n) for an integer n
RECURSIVE NatToStr(_)
NatToStr(n) ==
    IF n < 10 THEN <<Digits[n + 1]>>
    ELSE NatToStr(n \div 10) \o <<Digits[(n % 10) + 1]>>

IntToStr(n) == IF n < 0 THEN <<"-">> \o NatToStr(-n) ELSE NatToStr(n)

IsSpace(c) == c \in Whitespace

RECURSIVE LStrip(_, _)
LStrip(s, blank) ==
    IF s # <<>> /\ Head(s) \in blank THEN LStrip(Tail(s), blank) ELSE s

RECURSIVE RStrip(_, _)
RStrip(s, blank) ==
    IF s # <<>> /\ s[Len(s)] \in blank
    THEN RStrip(SubSeq(s, 1, Len(s) - 1), blank)
    ELSE s

\* str.strip()
Strip(s) == RStrip(LStrip(s, Whitespace), Whitespace)

UpperCase == <<"A", "B", "C", "D", "E", "F", "G", "H", "I", "J", "K", "L", "M",
               "N", "O", "P", "Q", "R", "S", "T", "U", "V", "W", "X", "Y", "Z">>

LowerCase == <<"a", "b", "c", "d", "e", "f", "g", "h", "i", "j", "k", "l", "m",
               "n", "o", "p", "q", "r", "s", "t", "u", "v", "w", "x", "y", "z">>

LowerChar(c) ==
    IF \E i \in 1..Len(UpperCase) : UpperCase[i] = c
    THEN LowerCase[CHOOSE i \in 1..Len(UpperCase) : UpperCase[i] = c]
    ELSE c

\* str.lower()
Lower(s) == [i \in 1..Len(s) |-> LowerChar(s[i])]

\* the value of a string of digits
RECURSIVE DigitsToNat(_, _)
DigitsToNat(s, acc) ==
    IF s = <<>> THEN acc
    ELSE DigitsToNat(Tail(s), acc * 10 + DigitVal(Head(s)))

\* The digit part of an integer literal as int() accepts it: digits, with
\* single underscores allowed between two digits.
DecimalBody(s) ==
    /\ s # <<>>
    /\ \A i \in 1..Len(s) :
          \/ IsDigit(s[i])
          \/ /\ s[i] = "_"
             /\ 1 < i /\ i < Len(s)
             /\ IsDigit(s[i - 1]) /\ IsDigit(s[i + 1])

\* the number of digits of a digit part
DigitCount(s) == Cardinality({i \in 1..Len(s) : IsDigit(s[i])})

\* the digits of a digit part that decide its value: the underscores and
\* the leading zeros dropped
Significant(s) ==
    LET NotUnderscore(c) == c # "_"
        plain == SelectSeq(s, NotUnderscore)
        nonzero == {i \in 1..Len(plain) : DigitVal(plain[i]) # 0}
    IN  IF nonzero = {} THEN <<>>
        ELSE SubSeq(plain, CHOOSE i \in nonzero : \A j \in nonzero : i <= j,
                    Len(plain))

\* int(text): surrounding whitespace is ignored, an optional sign, then the
\* digit part, of at most MaxStrDigits digits; anything else raises
\* ValueError (ok = FALSE).
ParseInt(text) ==
    LET s == RStrip(LStrip(text, IntWhitespace), IntWhitespace)
        signed == s # <<>> /\ Head(s) \in {"+", "-"}
        body == IF signed THEN Tail(s) ELSE s
    IN  IF DecimalBody(body) /\ DigitCount(body) <= MaxStrDigits
        THEN [ok |-> TRUE,
              value |-> IF signed /\ Head(s) = "-"
                        THEN -DigitsToNat(Significant(body), 0)
                        ELSE DigitsToNat(Significant(body), 0)]
        ELSE [ok |-> FALSE, value |-> 0]

\* str.replace("'", "''")
RECURSIVE EscapeQuotes(_)
EscapeQuotes(s) ==
    IF s = <<>> THEN <<>>
    ELSE (IF Head(s) = "'" THEN <<"'", "'">> ELSE <<Head(s)>>)
         \o EscapeQuotes(Tail(s))

---------------------------------------------------------------------------
(* Python values: a field of an event is absent, None, a str, an int or a  *)
(* bool.                                                                   *)

Absent == [t |-> "absent", s |-> <<>>, n |-> 0, b |-> FALSE]
None == [t |-> "none", s |-> <<>>, n |-> 0, b |-> FALSE]
S(text) == [t |-> "str", s |-> text, n |-> 0, b |-> FALSE]
I(k) == [t |-> "int", s |-> <<>>, n |-> k, b |-> FALSE]
B(v) == [t |-> "bool", s |-> <<>>, n |-> 0, b |-> v]

\* dict.get(key): None when the key is missing
Get(v) == IF v.t = "absent" THEN None ELSE v

\* truth value of a Python value
Truthy(v) ==
    CASE v.t = "str" -> v.s # <<>>
      [] v.t = "int" -> v.n # 0
      [] v.t = "bool" -> v.b
      [] OTHER -> FALSE

\* str(v)
Str(v) ==
    CASE v.t = "str" -> v.s
      [] v.t = "int" -> IntToStr(v.n)
      [] v.t = "bool" -> IF v.b THEN <<"T", "r", "u", "e">>
                         ELSE <<"F", "a", "l", "s", "e">>
      [] OTHER -> <<"N", "o", "n", "e">>

Unknown == <<"u", "n", "k", "n", "o", "w", "n">>

Event(sid, stype, data) ==
    [sensor_id |-> sid, sensor_type |-> stype, original_data |-> data]

---------------------------------------------------------------------------
(* get_next_page and the row collection of query_events                    *)
(* A result is [has_result, rows, next]; next is a cursor value.           *)

CursorAbsent == "<no attribute>"
CursorNone == "<None>"

\* truth value of a cursor (None and the empty string are false)
CursorTruthy(c) == c \notin {CursorNone, ""}

\* hasattr(result, 'next') and result.next
HasUsableNext(r) == r.next # CursorAbsent /\ CursorTruthy(r.next)

RECURSIVE get_next_page(_)
get_next_page(events_results) ==
    IF events_results = <<>> THEN CursorNone
    ELSE IF HasUsableNext(Head(events_results)) THEN Head(events_results).next
    ELSE get_next_page(Tail(events_results))

\* ExtendRows with the rows assigned instead of extended
ExtendRowsReplace(rows, r) ==
    IF r.has_result /\ r.rows # <<>> THEN r.rows ELSE rows

\* if r.result and r.result.rows: all_rows.extend(r.result.rows)
ExtendRows(rows, r) ==
    IF r.has_result /\ r.rows # <<>> THEN rows \o r.rows ELSE rows

RECURSIVE CollectRows(_, _)
CollectRows(rows, result_list) ==
    IF result_list = <<>> THEN rows
    ELSE CollectRows(ExtendRows(rows, Head(result_list)), Tail(result_list))

---------------------------------------------------------------------------
(* aggregate_by_sensor                                                     *)
(* The table is the dict's items in insertion order: [key, events].        *)

\* event.get(field) or 'unknown'
OrUnknown(v) == IF Truthy(Get(v)) THEN Get(v) ELSE S(Unknown)

\* str(x) if x is not None else 'unknown'
ToKeyString(x) == IF x.t # "none" THEN Str(x) ELSE Unknown

SensorKey(event) ==
    <<ToKeyString(OrUnknown(event.sensor_id)),
      ToKeyString(OrUnknown(event.sensor_type))>>

HasKey(table, key) == \E i \in 1..Len(table) : table[i].key = key

KeyIndex(table, key) == CHOOSE i \in 1..Len(table) : table[i].key = key

\* AppendToGroup with the event put at the front of its group
AppendToGroupFront(table, key, event) ==
    IF HasKey(table, key)
    THEN [table EXCEPT ![KeyIndex(table, key)].events = <<event>> \o @]
    ELSE Append(table, [key |-> key, events |-> <<event>>])

\* aggregated[key].append(event), on a defaultdict(list)
AppendToGroup(table, key, event) ==
    IF HasKey(table, key)
    THEN [table EXCEPT ![KeyIndex(table, key)].events = Append(@, event)]
    ELSE Append(table, [key |-> key, events |-> <<event>>])

RECURSIVE AggregateInto(_, _)
AggregateInto(table, evs) ==
    IF evs = <<>> THEN table
    ELSE AggregateInto(AppendToGroup(table, SensorKey(Head(evs)), Head(evs)),
                       Tail(evs))

aggregate_by_sensor(evs) == AggregateInto(<<>>, evs)

---------------------------------------------------------------------------
(* sorted(aggregated.items(), key=...)                                     *)

\* tuple comparison of two sort keys (int, str, str)
SortKeyLess(k1, k2) ==
    \/ k1.neg_count < k2.neg_count
    \/ /\ k1.neg_count = k2.neg_count
       /\ \/ StrLess(k1.sensor_id, k2.sensor_id)
          \/ /\ k1.sensor_id = k2.sensor_id
             /\ StrLess(k1.sensor_type, k2.sensor_type)

\* sorted() is stable: an item goes after every item that is not greater.
RECURSIVE InsertByKey(_, _)
InsertByKey(done, x) ==
    IF done = <<>> THEN <<x>>
    ELSE IF SortKeyLess(x.k, Head(done).k) THEN <<x>> \o done
    ELSE <<Head(done)>> \o InsertByKey(Tail(done), x)

RECURSIVE SortDecorated(_, _)
SortDecorated(done, rest) ==
    IF rest = <<>> THEN done
    ELSE SortDecorated(InsertByKey(done, Head(rest)), Tail(rest))

Undecorate(dec) == [i \in 1..Len(dec) |-> dec[i].v]

\* key=lambda x: (-len(x[1]), x[0][0], x[0][1]) in display_aggregated_sources
DisplaySortKey(item) ==
    [neg_count |-> -Len(item.events), sensor_id |-> item.key[1],
     sensor_type |-> item.key[2]]

DisplaySorted(table) ==
    Undecorate(SortDecorated(<<>>,
        [i \in 1..Len(table) |-> [k |-> DisplaySortKey(table[i]), v |-> table[i]]]))

\* the numbered lines display_aggregated_sources prints
DisplayLines(table) ==
    LET sorted == DisplaySorted(table)
    IN  [i \in 1..Len(sorted) |->
            [idx |-> i, key |-> sorted[i].key, count |-> Len(sorted[i].events)]]

\* a line naming the key can be printed
CanPrintKey(unicode, key) ==
    CanPrint(unicode, key[1]) /\ CanPrint(unicode, key[2])

\* the lines printed before the first one that cannot be: all of them when
\* every key can be printed
PrintedLines(unicode, lines) ==
    LET bad == {i \in 1..Len(lines) : ~CanPrintKey(unicode, lines[i].key)}
    IN  IF bad = {} THEN lines
        ELSE SubSeq(lines, 1, (CHOOSE i \in bad : \A j \in bad : i <= j) - 1)

\* SelectSortKey ranking by count and sensor_id only
SelectSortKeyNoType(item) ==
    [neg_count |-> -Len(item.events), sensor_id |-> item.key[1],
     sensor_type |-> <<>>]

\* key=lambda x: (-len(x[1]), x[0][0], x[0][1]) in select_log_source
SelectSortKey(item) ==
    [neg_count |-> -Len(item.events), sensor_id |-> item.key[1],
     sensor_type |-> item.key[2]]

SelectSorted(table) ==
    Undecorate(SortDecorated(<<>>,
        [i \in 1..Len(table) |-> [k |-> SelectSortKey(table[i]), v |-> table[i]]]))

---------------------------------------------------------------------------
(* The queries main builds                                                 *)

TimeRange == <<"-", "1", "d">>

TxtFromGeneric == <<"F", "R", "O", "M", " ", "g", "e", "n", "e", "r", "i", "c">>
TxtEarliest == <<" ", "E", "A", "R", "L", "I", "E", "S", "T", "=">>
TxtWhereSensorId ==
    <<" ", "W", "H", "E", "R", "E", " ",
      "s", "e", "n", "s", "o", "r", "_", "i", "d", "=", "'">>
TxtAndSensorType ==
    <<"'", " ", "A", "N", "D", " ",
      "s", "e", "n", "s", "o", "r", "_", "t", "y", "p", "e", "=", "'">>
TxtQuote == <<"'">>

\* f"FROM generic EARLIEST={args.time_range}"
InitialQuery == TxtFromGeneric \o TxtEarliest \o TimeRange

\* f"FROM generic WHERE sensor_id='{sensor_id_escaped}' AND
\*   sensor_type='{sensor_type_escaped}' EARLIEST={args.time_range}"
FilteredQuery(key) ==
    TxtFromGeneric \o TxtWhereSensorId \o EscapeQuotes(key[1])
    \o TxtAndSensorType \o EscapeQuotes(key[2]) \o TxtQuote
    \o TxtEarliest \o TimeRange

---------------------------------------------------------------------------
(* export_events_to_file                                                   *)

\* what one event adds to the file
ExportLine(event) ==
    LET original_data == Get(event.original_data)
    IN  IF original_data.t # "none" THEN Str(original_data) \o <<"\n">>
        ELSE <<>>

\* what one event adds to count
ExportCount(event) == IF Get(event.original_data).t # "none" THEN 1 ELSE 0

RECURSIVE WriteEvents(_, _)
WriteEvents(text, evs) ==
    IF evs = <<>> THEN text
    ELSE WriteEvents(text \o ExportLine(Head(evs)), Tail(evs))

RECURSIVE CountEvents(_, _)
CountEvents(count, evs) ==
    IF evs = <<>> THEN count
    ELSE CountEvents(count + ExportCount(Head(evs)), Tail(evs))

---------------------------------------------------------------------------
(* The Taegis event service the SDK talks to (mock): it parses the query,  *)
(* filters its store, and serves the rows in result lists of its choosing. *)

StartsWith(s, p) == Len(s) >= Len(p) /\ SubSeq(s, 1, Len(p)) = p

Drop(s, n) == SubSeq(s, n + 1, Len(s))

\* A quoted literal, read after its opening quote: '' stands for one quote,
\* a single quote ends the literal.
RECURSIVE ReadLiteral(_, _)
ReadLiteral(acc, s) ==
    IF s = <<>> THEN [ok |-> FALSE, value |-> acc, rest |-> <<>>]
    ELSE IF Head(s) = "'"
         THEN IF Len(s) >= 2 /\ s[2] = "'"
              THEN ReadLiteral(Append(acc, "'"), Drop(s, 2))
              ELSE [ok |-> TRUE, value |-> acc, rest |-> Tail(s)]
         ELSE ReadLiteral(Append(acc, Head(s)), Tail(s))

BadQuery ==
    [ok |-> FALSE, filtered |-> FALSE, sensor_id |-> <<>>, sensor_type |-> <<>>]

ServerParse(q) ==
    LET tail == TxtEarliest \o TimeRange
        r1 == Drop(q, Len(TxtFromGeneric))
        l1 == ReadLiteral(<<>>, Drop(r1, Len(TxtWhereSensorId)))
        l2 == ReadLiteral(<<>>, Drop(l1.rest, Len(TxtAndSensorType) - 1))
    IN  IF ~StartsWith(q, TxtFromGeneric) THEN BadQuery
        ELSE IF r1 = tail
        THEN [ok |-> TRUE, filtered |-> FALSE,
              sensor_id |-> <<>>, sensor_type |-> <<>>]
        ELSE IF ~StartsWith(r1, TxtWhereSensorId) THEN BadQuery
        ELSE IF ~l1.ok \/ ~StartsWith(l1.rest, Tail(TxtAndSensorType))
        THEN BadQuery
        ELSE IF ~l2.ok \/ l2.rest # tail THEN BadQuery
        ELSE [ok |-> TRUE, filtered |-> TRUE,
              sensor_id |-> l1.value, sensor_type |-> l2.value]

\* The server compares the stored field values with the literals.
ServerMatches(event, parsed) ==
    \/ ~parsed.filtered
    \/ /\ event.sensor_id = S(parsed.sensor_id)
       /\ event.sensor_type = S(parsed.sensor_type)

ServerSelect(evs, q) ==
    LET Test(e) == ServerMatches(e, ServerParse(q))
    IN  SelectSeq(evs, Test)

RealCursors == {"X", "Y"}

Cursors == RealCursors \cup {CursorNone, CursorAbsent, ""}

ResultShapes(cursors, withNone) ==
    {[has_result |-> TRUE, take |-> k, next |-> c] :
        k \in 0..MaxRowsPerResult, c \in cursors}
    \cup (IF withNone
          THEN {[has_result |-> FALSE, take |-> 0, next |-> c] : c \in cursors}
          ELSE {})

\* The shapes of the result lists the server answers with.  A direct call of
\* query_events meets every shape; in a run of main each fetch returns one
\* result, with or without a cursor.
ServerShapes(e) ==
    IF e = "query_events"
    THEN UNION {[1..n -> ResultShapes(Cursors, TRUE)] : n \in 0..MaxResults}
    ELSE [1..1 -> ResultShapes({CursorNone, "X"}, FALSE)]

RECURSIVE TotalTake(_)
TotalTake(shape) ==
    IF shape = <<>> THEN 0 ELSE Head(shape).take + TotalTake(Tail(shape))

RECURSIVE BuildResults(_, _)
BuildResults(shape, rows) ==
    IF shape = <<>> THEN <<>>
    ELSE <<[has_result |-> Head(shape).has_result,
            rows |-> SubSeq(rows, 1, Head(shape).take),
            next |-> Head(shape).next]>>
         \o BuildResults(Tail(shape), Drop(rows, Head(shape).take))

\* The continuation cursor of a response: that of its first result that
\* carries one.
SentCursor(shape) ==
    LET with == {i \in 1..Len(shape) : shape[i].next \in RealCursors}
    IN  IF with = {} THEN CursorNone
        ELSE shape[CHOOSE i \in with : \A j \in with : i <= j].next

\* One answer of the server to a fetch, for the rows it still has to serve.
Answers(e, rows, fetches_so_far) ==
    {shape \in ServerShapes(e) :
        /\ TotalTake(shape) <= Len(rows)
        /\ (fetches_so_far + 1 >= MaxFetches => SentCursor(shape) = CursorNone)}

---------------------------------------------------------------------------
(* State shared by the actions *)

runVars == <<entry, stdout_unicode, store>>
pagerVars == <<query, caller, pending, all_rows, next_page, fetch_log, page_calls>>
selVars == <<displayed, sorted_sources, prompts, last_input, selected>>
outVars == <<file, reported>>

NoInput == [kind |-> "none", text |-> <<>>]
OldText == <<"o", "l", "d", "\n">>
NoFile == [opened |-> FALSE, text |-> OldText]
NoVal == [stage |-> "unused"]

\* sys.exit(n), with the message printed to standard error before it
Exit(n, msg) ==
    /\ pc' = "exited"
    /\ exit_status' = <<n>>
    /\ stderr' = IF msg = "" THEN stderr ELSE Append(stderr, msg)

---------------------------------------------------------------------------
(* query_events *)

\* QueryErrorOutcome with the sys.exit(1) of the second handler missing
QueryErrorOutcomeNoExit(c) ==
    CASE c = "q1" -> [pc |-> "exited", exit_status |-> <<1>>,
                      msg |-> <<"Error querying events">>]
      [] c = "q2" -> [pc |-> "export", exit_status |-> <<>>,
                      msg |-> <<"Error querying selected events">>]
      [] OTHER -> [pc |-> "raised", exit_status |-> <<>>, msg |-> <<>>]

\* Where an exception raised inside query_events ends: main reports it and
\* exits 1; a direct caller sees it propagate.
QueryErrorOutcome(c) ==
    CASE c = "q1" -> [pc |-> "exited", exit_status |-> <<1>>,
                      msg |-> <<"Error querying events">>]
      [] c = "q2" -> [pc |-> "exited", exit_status |-> <<1>>,
                      msg |-> <<"Error querying selected events">>]
      [] OTHER -> [pc |-> "raised", exit_status |-> <<>>, msg |-> <<>>]

QueryRaises ==
    /\ pc' = QueryErrorOutcome(caller).pc
    /\ exit_status' = QueryErrorOutcome(caller).exit_status
    /\ stderr' = stderr \o QueryErrorOutcome(caller).msg
    /\ queries_raised' = queries_raised + 1
    /\ UNCHANGED <<runVars, pagerVars, selVars, outVars, queries_ok, events,
                   aggregated, selected_events, val>>

\* the initial event_query call returns
EventQuery ==
    /\ pc = "query"
    /\ ServerParse(query).ok
    /\ \E shape \in Answers(entry, ServerSelect(store, query), 0) :
          LET rows == ServerSelect(store, query)
              result_list == BuildResults(shape, rows)
          IN  /\ all_rows' = CollectRows(<<>>, result_list)
              /\ next_page' = get_next_page(result_list)
              /\ pending' = Drop(rows, TotalTake(shape))
              /\ fetch_log' = <<[rows |-> SubSeq(rows, 1, TotalTake(shape)),
                                 cursor |-> SentCursor(shape)]>>
              /\ page_calls' = <<>>
    /\ pc' = "paging"
    /\ UNCHANGED <<runVars, query, caller, selVars, outVars, exit_status,
                   stderr, queries_ok, queries_raised, events, aggregated,
                   selected_events, val>>

\* the initial event_query call raises
EventQueryRaises ==
    /\ pc = "query"
    /\ QueryRaises

\* while next_page: one event_page call returns
EventPage ==
    /\ pc = "paging"
    /\ CursorTruthy(next_page)
    /\ \E shape \in Answers(entry, pending, Len(fetch_log)) :
          LET result_list == BuildResults(shape, pending)
          IN  /\ all_rows' = CollectRows(all_rows, result_list)
              /\ next_page' = get_next_page(result_list)
              /\ pending' = Drop(pending, TotalTake(shape))
              /\ fetch_log' = Append(fetch_log,
                                [rows |-> SubSeq(pending, 1, TotalTake(shape)),
                                 cursor |-> SentCursor(shape)])
              /\ page_calls' = Append(page_calls, next_page)
    /\ UNCHANGED <<runVars, query, caller, selVars, outVars, pc, exit_status,
                   stderr, queries_ok, queries_raised, events, aggregated,
                   selected_events, val>>

\* while next_page: one event_page call raises
EventPageRaises ==
    /\ pc = "paging"
    /\ CursorTruthy(next_page)
    /\ QueryRaises

\* The loop ends and query_events returns all_rows to its caller.  In main
\* the call sits in a try block together with the print of the line
\* "\u2713 Retrieved N events": when standard output cannot encode the
\* check mark the print raises and the handler of the query ends the run.
\* In a run of main the frame of query_events is gone after the return.
QueryReturn ==
    /\ pc = "paging"
    /\ ~CursorTruthy(next_page)
    /\ queries_ok' = queries_ok + 1
    /\ events' = IF caller = "q1" THEN all_rows ELSE events
    /\ selected_events' = IF caller = "q2" THEN all_rows ELSE selected_events
    /\ IF caller = "direct"
       THEN /\ pc' = "returned"
            /\ UNCHANGED <<exit_status, stderr, pending, all_rows, next_page,
                           fetch_log, page_calls>>
       ELSE /\ pending' = <<>>
            /\ all_rows' = <<>>
            /\ next_page' = CursorNone
            /\ fetch_log' = <<>>
            /\ page_calls' = <<>>
            /\ IF stdout_unicode
               THEN /\ pc' = IF caller = "q1" THEN "got_events" ELSE "export"
                    /\ UNCHANGED <<exit_status, stderr>>
               ELSE /\ pc' = QueryErrorOutcome(caller).pc
                    /\ exit_status' = QueryErrorOutcome(caller).exit_status
                    /\ stderr' = stderr \o QueryErrorOutcome(caller).msg
    /\ UNCHANGED <<runVars, query, caller, selVars, outVars, queries_raised,
                   aggregated, val>>

---------------------------------------------------------------------------
(* main of export_unparsed_events.py *)

\* GraphQLService(...) is constructed; main goes on to the first query
ServiceInitOk ==
    /\ pc = "start"
    /\ query' = InitialQuery
    /\ caller' = "q1"
    /\ pc' = "query"
    /\ UNCHANGED <<runVars, pending, all_rows, next_page, fetch_log,
                   page_calls, selVars, outVars, exit_status, stderr,
                   queries_ok, queries_raised, events, aggregated,
                   selected_events, val>>

\* GraphQLService(...) raises
ServiceInitFails ==
    /\ pc = "start"
    /\ Exit(1, "Error initializing Taegis service")
    /\ UNCHANGED <<runVars, pagerVars, selVars, outVars, queries_ok,
                   queries_raised, events, aggregated, selected_events, val>>

\* after the first query: no events ends the run with status 0, otherwise
\* the events are aggregated and the sources displayed; a line that
\* standard output cannot encode raises UnicodeEncodeError, which main does
\* not catch
MainGotEvents ==
    /\ pc = "got_events"
    /\ IF events = <<>>
       THEN /\ Exit(0, "")
            /\ UNCHANGED <<aggregated, displayed>>
       ELSE LET lines == DisplayLines(aggregate_by_sensor(events))
            IN  /\ aggregated' = aggregate_by_sensor(events)
                /\ displayed' = PrintedLines(stdout_unicode, lines)
                /\ IF PrintedLines(stdout_unicode, lines) = lines
                   THEN pc' = "select" /\ UNCHANGED <<exit_status, stderr>>
                   ELSE Exit(1, "UnicodeEncodeError")
    /\ UNCHANGED <<runVars, pagerVars, sorted_sources, prompts, last_input,
                   selected, outVars, queries_ok, queries_raised, events,
                   selected_events, val>>

\* the selected key is escaped and interpolated into the second query
MainBuildQuery ==
    /\ pc = "build_query"
    /\ query' = FilteredQuery(selected)
    /\ caller' = "q2"
    /\ pc' = "query"
    /\ UNCHANGED <<runVars, pending, all_rows, next_page, fetch_log,
                   page_calls, selVars, outVars, exit_status, stderr,
                   queries_ok, queries_raised, events, aggregated,
                   selected_events, val>>

---------------------------------------------------------------------------
(* aggregate_by_sensor, called directly *)

Aggregate ==
    /\ pc = "aggregate"
    /\ aggregated' = aggregate_by_sensor(events)
    /\ pc' = "returned"
    /\ UNCHANGED <<runVars, pagerVars, selVars, outVars, exit_status, stderr,
                   queries_ok, queries_raised, events, selected_events, val>>

---------------------------------------------------------------------------
(* select_log_source *)

\* SelectOutcome with the test for an empty list missing
SelectOutcomeNoCheck(ranked) ==
    [pc |-> "prompt", exit_status |-> <<>>, msg |-> <<>>]

\* if not sorted_sources: report and sys.exit(1); otherwise prompt
SelectOutcome(ranked) ==
    IF ranked = <<>>
    THEN [pc |-> "exited", exit_status |-> <<1>>, msg |-> <<"No log sources found.">>]
    ELSE [pc |-> "prompt", exit_status |-> <<>>, msg |-> <<>>]

\* the ranked list is built; an empty list ends the run with status 1
SelectEnter ==
    /\ pc = "select"
    /\ sorted_sources' = SelectSorted(aggregated)
    /\ pc' = SelectOutcome(SelectSorted(aggregated)).pc
    /\ exit_status' = SelectOutcome(SelectSorted(aggregated)).exit_status
    /\ stderr' = stderr \o SelectOutcome(SelectSorted(aggregated)).msg
    /\ UNCHANGED <<runVars, pagerVars, displayed, prompts, last_input,
                   selected, outVars, queries_ok, queries_raised, events,
                   aggregated, selected_events, val>>

\* What select_log_source does with one line read by input().  The line
\* "Selected: ..." is printed inside the try block: when standard output
\* cannot encode the key, print raises UnicodeEncodeError, a ValueError,
\* and the handler asks again.
Choice(line, ranked) ==
    LET choice == Strip(line)
        parsed == ParseInt(choice)
    IN  IF Lower(choice) = <<"q">> THEN [do |-> "quit", index |-> 0]
        ELSE IF ~parsed.ok THEN [do |-> "again", index |-> 0]
        ELSE IF 1 <= parsed.value /\ parsed.value <= Len(ranked)
        THEN IF CanPrintKey(stdout_unicode, ranked[parsed.value].key)
             THEN [do |-> "select", index |-> parsed.value]
             ELSE [do |-> "again", index |-> 0]
        ELSE [do |-> "again", index |-> 0]

InputChars ==
    {"0", "1", "2", "q", "Q", " ", "", "-", "+", "_", "U+0661"}

InputLines == UNION {[1..n -> InputChars] : n \in 0..MaxInputLen}

\* the number 1 written with n digits
PaddedOne(n) == [i \in 1..n |-> IF i < n THEN "0" ELSE "1"]

\* two long lines: the number 1 with as many digits as int() reads, and
\* with one digit more
LongLines == {PaddedOne(MaxStrDigits), PaddedOne(MaxStrDigits + 1)}

\* The lines typed at the prompt: every short line and the long lines when
\* select_log_source is called directly, the lines of at most one character
\* in a run of main.
LinesTyped(e) ==
    IF e = "select_log_source" THEN InputLines \cup LongLines
    ELSE {line \in InputLines : Len(line) <= 1}

\* input() returns a line
PromptRead ==
    /\ pc = "prompt"
    /\ prompts < MaxPrompts
    /\ \E line \in LinesTyped(entry) :
          last_input' = [kind |-> "line", text |-> line]
    /\ prompts' = prompts + 1
    /\ pc' = "choice"
    /\ UNCHANGED <<runVars, pagerVars, displayed, sorted_sources, selected,
                   outVars, exit_status, stderr, queries_ok, queries_raised,
                   events, aggregated, selected_events, val>>

\* the line is handled: quit, select, or ask again
PromptChoice ==
    /\ pc = "choice"
    /\ LET c == Choice(last_input.text, sorted_sources)
       IN  CASE c.do = "quit" ->
                  /\ Exit(0, "")
                  /\ UNCHANGED selected
             [] c.do = "select" ->
                  /\ selected' = sorted_sources[c.index].key
                  /\ pc' = IF entry = "main" THEN "build_query" ELSE "returned"
                  /\ UNCHANGED <<exit_status, stderr>>
             [] OTHER ->
                  /\ pc' = "prompt"
                  /\ UNCHANGED <<exit_status, stderr, selected>>
    /\ last_input' = NoInput
    /\ UNCHANGED <<runVars, pagerVars, displayed, sorted_sources, prompts,
                   outVars, queries_ok, queries_raised, events, aggregated,
                   selected_events, val>>

\* input() is interrupted: KeyboardInterrupt is caught, status 0
PromptInterrupt ==
    /\ pc = "prompt"
    /\ last_input' = [kind |-> "interrupt", text |-> <<>>]
    /\ prompts' = prompts + 1
    /\ Exit(0, "")
    /\ UNCHANGED <<runVars, pagerVars, displayed, sorted_sources, selected,
                   outVars, queries_ok, queries_raised, events, aggregated,
                   selected_events, val>>

\* input() meets the end of its input: EOFError is not caught, the
\* interpreter prints the traceback and ends with status 1
PromptEndOfInput ==
    /\ pc = "prompt"
    /\ last_input' = [kind |-> "eof", text |-> <<>>]
    /\ prompts' = prompts + 1
    /\ Exit(1, "EOFError")
    /\ UNCHANGED <<runVars, pagerVars, displayed, sorted_sources, selected,
                   outVars, queries_ok, queries_raised, events, aggregated,
                   selected_events, val>>

---------------------------------------------------------------------------
(* export_events_to_file *)

\* where a run goes when export_events_to_file returns
AfterExport ==
    IF entry = "main"
    THEN pc' = "exited" /\ exit_status' = <<0>>
    ELSE pc' = "returned" /\ UNCHANGED exit_status

\* The file is opened for writing (truncated), every line is written and
\* the file is closed; then the line "\u2713 Successfully exported N events"
\* is printed, inside the same try block: when standard output cannot
\* encode the check mark the print raises and the handler ends the run.
ExportWritten ==
    /\ pc = "export"
    /\ file' = [opened |-> TRUE, text |-> WriteEvents(<<>>, selected_events)]
    /\ IF stdout_unicode
       THEN /\ reported' = <<CountEvents(0, selected_events)>>
            /\ AfterExport
            /\ UNCHANGED stderr
       ELSE /\ Exit(1, "Error writing to file")
            /\ UNCHANGED reported
    /\ UNCHANGED <<runVars, pagerVars, selVars, queries_ok, queries_raised,
                   events, aggregated, selected_events, val>>

\* open() raises: nothing is written
ExportOpenFails ==
    /\ pc = "export"
    /\ Exit(1, "Error writing to file")
    /\ UNCHANGED <<runVars, pagerVars, selVars, outVars, queries_ok,
                   queries_raised, events, aggregated, selected_events, val>>

\* A write, or the flush of the buffer, raises.  The text and the line
\* terminator of an event are written separately into a buffer, so the
\* file is left with some proper prefix of the text, a part of a line
\* included.
ExportWriteFails ==
    /\ pc = "export"
    /\ LET text == WriteEvents(<<>>, selected_events)
       IN  \E n \in 0..(Len(text) - 1) :
              file' = [opened |-> TRUE, text |-> SubSeq(text, 1, n)]
    /\ Exit(1, "Error writing to file")
    /\ UNCHANGED <<runVars, pagerVars, selVars, reported, queries_ok,
                   queries_raised, events, aggregated, selected_events, val>>

---------------------------------------------------------------------------
(* validate_parser.py *)

\* sys.exit(0 if result.ok else 1)
ExitCodeFor(ok) == IF Truthy(ok) THEN 0 ELSE 1

\* read_par_file: a missing path, a path that is no file and a read error
\* all end the run with status 1; otherwise the text is returned.  The
\* calls path.exists() and path.is_file() are outside the try block: an
\* OSError they raise (a name too long, a directory that may not be
\* searched) is not caught and ends the run with a traceback, status 1.
ReadParFile ==
    /\ pc = "read_par_file"
    /\ CASE val.path = "unstatable" ->
              /\ Exit(1, "OSError")
              /\ UNCHANGED val
         [] val.path = "missing" ->
              /\ Exit(1, "Error: File not found")
              /\ UNCHANGED val
         [] val.path = "directory" ->
              /\ Exit(1, "Error: Path is not a file")
              /\ UNCHANGED val
         [] val.path = "file" /\ ~val.readable ->
              /\ Exit(1, "Error reading file")
              /\ UNCHANGED val
         [] OTHER ->
              /\ val' = [val EXCEPT !.parser_code = <<val.content>>]
              /\ pc' = "init_service"
              /\ UNCHANGED <<exit_status, stderr>>
    /\ UNCHANGED <<runVars, pagerVars, selVars, outVars, queries_ok,
                   queries_raised, events, aggregated, selected_events>>

\* GraphQLService(environment=environment) if environment else GraphQLService()
ValidatorServiceOk ==
    /\ pc = "init_service"
    /\ val' = [val EXCEPT !.service =
                  IF Truthy(val.environment) THEN <<val.environment>>
                  ELSE <<"default">>]
    /\ pc' = "validate"
    /\ UNCHANGED <<runVars, pagerVars, selVars, outVars, exit_status, stderr,
                   queries_ok, queries_raised, events, aggregated,
                   selected_events>>

ValidatorServiceFails ==
    /\ pc = "init_service"
    /\ val' = [val EXCEPT !.service = <<"failed">>]
    /\ Exit(1, "Error initializing Taegis service")
    /\ UNCHANGED <<runVars, pagerVars, selVars, outVars, queries_ok,
                   queries_raised, events, aggregated, selected_events>>

ValidationResults ==
    {[ok |-> o, message |-> m] :
        o \in {B(TRUE), B(FALSE), None}, m \in {None, S(<<>>), S(<<"m">>)}}

\* what the validator prints for a result
ResultLines(result) ==
    (IF Truthy(result.ok) THEN <<"VALID">> ELSE <<"INVALID">>)
    \o (IF Truthy(result.message)
        THEN <<IF Truthy(result.ok) THEN "Message" ELSE "Error">>
        ELSE <<>>)

\* validate_parser returns a result: it is printed and the status mirrors
\* ok.  The prints are inside the try block: when standard output cannot
\* encode the mark of the status line the print raises, no status line is
\* printed and the handler ends the run with status 1.
ValidateReturns ==
    /\ pc = "validate"
    /\ \E result \in ValidationResults :
          /\ val' = [val EXCEPT
                        !.sent = <<[code |-> val.parser_code[1],
                                    parent_id |-> val.parent_id]>>,
                        !.result = <<result>>,
                        !.stdout = IF stdout_unicode THEN ResultLines(result)
                                   ELSE <<>>]
          /\ IF stdout_unicode
             THEN Exit(ExitCodeFor(result.ok), "")
             ELSE Exit(1, "Error validating parser")
    /\ UNCHANGED <<runVars, pagerVars, selVars, outVars, queries_ok,
                   queries_raised, events, aggregated, selected_events>>

\* validate_parser raises
ValidateRaises ==
    /\ pc = "validate"
    /\ val' = [val EXCEPT
                  !.sent = <<[code |-> val.parser_code[1],
                              parent_id |-> val.parent_id]>>]
    /\ Exit(1, "Error validating parser")
    /\ UNCHANGED <<runVars, pagerVars, selVars, outVars, queries_ok,
                   queries_raised, events, aggregated, selected_events>>

---------------------------------------------------------------------------
(* Inputs *)

Txt_s1 == <<"s", "1">>
Txt_t1 == <<"t", "1">>
Txt_t2 == <<"t", "2">>
Txt_se == <<"s", "U+00E9">>
Txt_obrien == <<"o", "'", "b", "r", "i", "e", "n">>

\* events the server holds in a run of main
MainPool ==
    { Event(S(Txt_s1), S(Txt_t1), S(<<"a">>)),
      Event(S(Txt_s1), S(Txt_t2), S(<<"b">>)),
      Event(None, S(Txt_t2), S(<<"c">>)),
      Event(S(Txt_obrien), S(Txt_t1), Absent) }

Stores == UNION {[1..n -> MainPool] : n \in 0..MaxStore}

\* tables select_log_source is called with: what aggregate_by_sensor makes
\* of a few events
SelectPool ==
    { Event(S(Txt_s1), S(Txt_t1), S(<<"a">>)),
      Event(S(Txt_se), S(Txt_t2), S(<<"b">>)) }

SelectTables ==
    {aggregate_by_sensor(evs) :
        evs \in UNION {[1..n -> SelectPool] : n \in 0..MaxSelectEvents}}

\* rows the server holds when query_events is called directly
Tape == [i \in 1..TapeLen |-> Event(S(Txt_s1), S(Txt_t1), I(i))]

\* events aggregate_by_sensor is called with
AggPool ==
    {Event(sid, S(Txt_t1), S(d)) :
        sid \in {Absent, None, S(<<>>), S(Txt_s1), I(0), B(FALSE)},
        d \in {<<"a">>, <<"b">>}}
    \cup {Event(S(Txt_s1), stype, S(d)) :
        stype \in {Absent, I(0)}, d \in {<<"a">>, <<"b">>}}

AggInputs == UNION {[1..n -> AggPool] : n \in 0..MaxEvents}

\* events export_events_to_file is called with
ExportPool ==
    {Event(S(Txt_s1), S(Txt_t1), d) :
        d \in {Absent, None, S(<<>>), S(<<"a">>), S(<<"a", "\n", "b">>),
               I(0), B(FALSE)}}

ExportInputs == UNION {[1..n -> ExportPool] : n \in 0..MaxExport}

ValidatorInputs ==
    {[path |-> p, readable |-> r, content |-> c, environment |-> e,
      parent_id |-> i, parser_code |-> <<>>, service |-> <<>>, sent |-> <<>>,
      result |-> <<>>, stdout |-> <<>>] :
        p \in {"unstatable", "missing", "directory", "file"}, r \in BOOLEAN,
        c \in {<<>>, <<"a">>, <<"a", "\n", "b">>},
        e \in {None, S(<<>>), S(<<"U", "S", "1">>)},
        i \in {0, 1}}

---------------------------------------------------------------------------
(* Initial states and specifications *)

IdleRun ==
    exit_status = <<>> /\ stderr = <<>> /\ queries_ok = 0 /\ queries_raised = 0

IdlePager ==
    /\ pending = <<>>
    /\ all_rows = <<>>
    /\ next_page = CursorNone
    /\ fetch_log = <<>>
    /\ page_calls = <<>>

IdleSelect ==
    /\ displayed = <<>>
    /\ sorted_sources = <<>>
    /\ prompts = 0
    /\ last_input = NoInput
    /\ selected = <<>>

IdleOut == file = NoFile /\ reported = <<>>

\* python export_unparsed_events.py <tenant_id> <output_file>
InitMain ==
    /\ entry = "main"
    /\ stdout_unicode \in BOOLEAN
    /\ pc = "start"
    /\ store \in Stores
    /\ query = <<>> /\ caller = "q1"
    /\ events = <<>> /\ aggregated = <<>> /\ selected_events = <<>>
    /\ val = NoVal
    /\ IdleRun /\ IdlePager /\ IdleSelect /\ IdleOut

\* select_log_source(aggregated)
InitSelect ==
    /\ entry = "select_log_source"
    /\ stdout_unicode \in BOOLEAN
    /\ pc = "select"
    /\ store = <<>>
    /\ query = <<>> /\ caller = "direct"
    /\ events = <<>> /\ selected_events = <<>>
    /\ aggregated \in SelectTables
    /\ val = NoVal
    /\ IdleRun /\ IdlePager /\ IdleSelect /\ IdleOut

\* query_events(service, query, tenant_id)
InitPager ==
    /\ entry = "query_events"
    /\ stdout_unicode = TRUE
    /\ pc = "query"
    /\ store = Tape
    /\ query = InitialQuery /\ caller = "direct"
    /\ events = <<>> /\ aggregated = <<>> /\ selected_events = <<>>
    /\ val = NoVal
    /\ IdleRun /\ IdlePager /\ IdleSelect /\ IdleOut

\* aggregate_by_sensor(events)
InitAggregate ==
    /\ entry = "aggregate_by_sensor"
    /\ stdout_unicode = TRUE
    /\ pc = "aggregate"
    /\ store = <<>>
    /\ query = <<>> /\ caller = "direct"
    /\ events \in AggInputs
    /\ aggregated = <<>> /\ selected_events = <<>>
    /\ val = NoVal
    /\ IdleRun /\ IdlePager /\ IdleSelect /\ IdleOut

\* export_events_to_file(events, output_file)
InitExport ==
    /\ entry = "export_events_to_file"
    /\ stdout_unicode \in BOOLEAN
    /\ pc = "export"
    /\ store = <<>>
    /\ query = <<>> /\ caller = "direct"
    /\ events = <<>> /\ aggregated = <<>>
    /\ selected_events \in ExportInputs
    /\ val = NoVal
    /\ IdleRun /\ IdlePager /\ IdleSelect /\ IdleOut

\* python validate_parser.py <par_file>
InitValidate ==
    /\ entry = "validate_parser_file"
    /\ stdout_unicode \in BOOLEAN
    /\ pc = "read_par_file"
    /\ store = <<>>
    /\ query = <<>> /\ caller = "direct"
    /\ events = <<>> /\ aggregated = <<>> /\ selected_events = <<>>
    /\ val \in ValidatorInputs
    /\ IdleRun /\ IdlePager /\ IdleSelect /\ IdleOut

Init == InitMain \/ InitSelect

Next ==
    \/ ServiceInitOk
    \/ ServiceInitFails
    \/ EventQuery
    \/ EventQueryRaises
    \/ EventPage
    \/ EventPageRaises
    \/ QueryReturn
    \/ MainGotEvents
    \/ MainBuildQuery
    \/ SelectEnter
    \/ PromptRead
    \/ PromptChoice
    \/ PromptInterrupt
    \/ PromptEndOfInput
    \/ ExportWritten
    \/ ExportOpenFails
    \/ ExportWriteFails

\* the export tool, and select_log_source on any table
Spec == Init /\ [][Next]_vars

NextPager ==
    \/ EventQuery
    \/ EventQueryRaises
    \/ EventPage
    \/ EventPageRaises
    \/ QueryReturn

SpecPager == InitPager /\ [][NextPager]_vars

NextAggregate == Aggregate

SpecAggregate == InitAggregate /\ [][NextAggregate]_vars

NextExport ==
    \/ ExportWritten
    \/ ExportOpenFails
    \/ ExportWriteFails

SpecExport == InitExport /\ [][NextExport]_vars

NextValidate ==
    \/ ReadParFile
    \/ ValidatorServiceOk
    \/ ValidatorServiceFails
    \/ ValidateReturns
    \/ ValidateRaises

SpecValidate == InitValidate /\ [][NextValidate]_vars

---------------------------------------------------------------------------
(* Properties *)

RECURSIVE LogRows(_)
LogRows(log) == IF log = <<>> THEN <<>> ELSE Head(log).rows \o LogRows(Tail(log))

\* C1: query_events returns the rows of the initial query followed by the
\* rows of every page fetched, in arrival order; event_page is called once
\* for every fetch that returned a continuation cursor, with that cursor,
\* and the loop stops at the first fetch that returns none.
C1_PagerConcatenates ==
    pc \in {"paging", "returned"} =>
        /\ all_rows = LogRows(fetch_log)
        /\ Len(page_calls) = Len(fetch_log) - 1
        /\ \A i \in 1..Len(page_calls) :
              /\ fetch_log[i].cursor \in RealCursors
              /\ page_calls[i] = fetch_log[i].cursor
        /\ (pc = "returned" => fetch_log[Len(fetch_log)].cursor = CursorNone)

\* C1: page 1 with 2 rows and cursor "X", page 2 with 3 rows and no cursor:
\* 5 rows in page order and one event_page call.
C1_TwoPages ==
    /\ pc = "returned"
    /\ Len(fetch_log) = 2
    /\ Len(fetch_log[1].rows) = 2 /\ fetch_log[1].cursor = "X"
    /\ Len(fetch_log[2].rows) = 3 /\ fetch_log[2].cursor = CursorNone
    /\ all_rows = SubSeq(Tape, 1, 5)
    /\ page_calls = <<"X">>

\* the key component the aggregation is said to use for a field
StatedKeyPart(v) == IF v.t \in {"absent", "none"} THEN Unknown ELSE Str(v)

\* C2: for every event and each of sensor_id and sensor_type the key
\* component is "unknown" when the field is absent or null and the string
\* representation of the value otherwise (0, False and "" included).
C2_KeyComponents ==
    pc = "returned" =>
        \A i \in 1..Len(events) :
            \E g \in 1..Len(aggregated) :
                /\ aggregated[g].key = <<StatedKeyPart(events[i].sensor_id),
                                         StatedKeyPart(events[i].sensor_type)>>
                /\ \E j \in 1..Len(aggregated[g].events) :
                      aggregated[g].events[j] = events[i]

\* the positions of evs that f assigns to group g, in increasing order
PositionsOf(f, g, n) ==
    LET at == {i \in 1..n : f[i] = g}
    IN  [j \in 1..Cardinality(at) |->
            CHOOSE i \in at : Cardinality({m \in at : m <= i}) = j]

\* C3: aggregate_by_sensor partitions the events: each occurrence is in
\* exactly one group, the sizes sum to the number of events, no group is
\* empty, and a group keeps the relative order of its events.
C3_Partition ==
    pc = "returned" =>
        /\ \A g \in 1..Len(aggregated) : aggregated[g].events # <<>>
        /\ \A g, h \in 1..Len(aggregated) :
              aggregated[g].key = aggregated[h].key => g = h
        /\ \E f \in [1..Len(events) -> 1..Len(aggregated)] :
              \A g \in 1..Len(aggregated) :
                  LET at == PositionsOf(f, g, Len(events))
                  IN  aggregated[g].events = [j \in 1..Len(at) |-> events[at[j]]]

\* C3: three events, two groups, the group of two holding the first and
\* the third event, which differ.
C3_Interleaved ==
    /\ pc = "returned"
    /\ Len(events) = 3 /\ Len(aggregated) = 2
    /\ events[1] # events[3]
    /\ aggregated[1].events = <<events[1], events[3]>>
    /\ aggregated[2].events = <<events[2]>>

LineCount(text) == Cardinality({i \in 1..Len(text) : text[i] = "\n"})

\* C4: export_events_to_file writes one line per event with a non-null
\* original_data, and the count it reports is the number of lines of the
\* file.
C4_OneLinePerEvent ==
    (entry = "export_events_to_file" /\ pc = "returned") =>
        /\ LineCount(file.text)
              = Cardinality({i \in 1..Len(selected_events) :
                    selected_events[i].original_data.t \notin {"absent", "none"}})
        /\ reported = <<LineCount(file.text)>>

\* C5: once a query has raised, the export tool has exited with status 1
\* and the output file is as it was; the file is touched only after both
\* queries have returned.
C5_NoOutputAfterQueryError ==
    entry = "main" =>
        /\ queries_raised > 0 =>
              pc = "exited" /\ exit_status = <<1>> /\ file = NoFile
        /\ file # NoFile => queries_ok = 2 /\ queries_raised = 0

\* C5: the second query raised in a page fetch, after rows had arrived.
C5_SecondQueryRaised ==
    /\ entry = "main"
    /\ queries_ok = 1 /\ queries_raised = 1
    /\ caller = "q2" /\ all_rows # <<>> /\ Len(fetch_log) >= 1
    /\ pc = "exited"

\* a line without its leading and trailing whitespace
Core(line) ==
    LET solid == {i \in 1..Len(line) : line[i] \notin Whitespace}
    IN  IF solid = {} THEN <<>>
        ELSE SubSeq(line, CHOOSE i \in solid : \A j \in solid : i <= j,
                          CHOOSE i \in solid : \A j \in solid : j <= i)

\* every underscore of the text stands between two digits
Grouped(text) ==
    \A i \in 1..Len(text) :
        text[i] = "_" =>
            /\ i > 1 /\ i < Len(text)
            /\ text[i - 1] \in DigitSet
            /\ text[i + 1] \in DigitSet

\* the text without its underscores
Ungrouped(text) ==
    LET NotUnderscore(c) == c # "_" IN SelectSeq(text, NotUnderscore)

\* the values of the digits of a text, -1 for a character that is no digit
DigitValues(text) ==
    [i \in 1..Len(text) |->
        IF text[i] \in DigitSet THEN DigitVal(text[i]) ELSE -1]

\* the text spells the integer k >= 1 as an integer literal: an optional +,
\* then zeros and the digits of k, with underscores allowed between digits
Spells(text, k) ==
    LET body == IF text # <<>> /\ Head(text) = "+" THEN Tail(text) ELSE text
        values == DigitValues(Ungrouped(body))
        digits == DigitValues(IntToStr(k))
        z == Len(values) - Len(digits)
    IN  /\ Grouped(body)
        /\ z >= 0
        /\ values = [i \in 1..z |-> 0] \o digits

\* C6: with N >= 1 ranked groups, a line spelling an integer of [1, N]
\* returns the key of that rank, the quit token ends the run with status 0,
\* an interrupt ends it with status 0, and every other input (another line,
\* or the end of the input) leads to another prompt with the ranked list
\* unchanged, without ending the run.
C6_SelectionLoop ==
    [][ /\ pc \in {"prompt", "choice"} => Len(sorted_sources) >= 1
        /\ pc = "choice" =>
              LET text == Core(last_input.text)
                  N == Len(sorted_sources)
              IN  IF text \in {<<"q">>, <<"Q">>}
                  THEN pc' = "exited" /\ exit_status' = <<0>>
                  ELSE IF \E k \in 1..N : Spells(text, k)
                  THEN /\ pc' \in {"returned", "build_query"}
                       /\ exit_status' = <<>>
                       /\ \E k \in 1..N : /\ Spells(text, k)
                                          /\ selected' = sorted_sources[k].key
                  ELSE /\ pc' = "prompt"
                       /\ exit_status' = <<>>
                       /\ selected' = selected
                       /\ sorted_sources' = sorted_sources
        /\ (pc = "prompt" /\ last_input'.kind = "interrupt") =>
              pc' = "exited" /\ exit_status' = <<0>>
        /\ (pc = "prompt" /\ last_input'.kind = "eof") =>
              /\ pc' = "prompt"
              /\ exit_status' = <<>>
              /\ selected' = selected
              /\ sorted_sources' = sorted_sources
      ]_vars

\* a is lexicographically before b: at the first position where they
\* differ a has the smaller character, or a ends there
LexBefore(a, b) ==
    \E k \in 1..(Len(b)) :
        /\ k <= Len(a) + 1
        /\ \A i \in 1..(k - 1) : a[i] = b[i]
        /\ (k = Len(a) + 1 \/ Ord(a[k]) < Ord(b[k]))

\* x ranks before y: more events, or as many and the smaller sensor_id, or
\* as many, the same sensor_id and the smaller sensor_type
RanksBefore(x, y) ==
    \/ Len(x.events) > Len(y.events)
    \/ /\ Len(x.events) = Len(y.events)
       /\ LexBefore(x.key[1], y.key[1])
    \/ /\ Len(x.events) = Len(y.events)
       /\ x.key[1] = y.key[1]
       /\ LexBefore(x.key[2], y.key[2])

\* C7: the ranked list holds the groups of the table in strictly
\* descending count, then ascending sensor_id, then ascending sensor_type;
\* the numbered list displayed is the list select_log_source indexes.
C7_Ranking ==
    /\ pc \in {"prompt", "choice", "build_query", "returned"} =>
          /\ Len(sorted_sources) = Len(aggregated)
          /\ \A g \in 1..Len(aggregated) :
                \E i \in 1..Len(sorted_sources) : sorted_sources[i] = aggregated[g]
          /\ \A i, j \in 1..Len(sorted_sources) :
                i < j => RanksBefore(sorted_sources[i], sorted_sources[j])
          /\ entry = "main" =>
                /\ Len(displayed) = Len(sorted_sources)
                /\ \A i \in 1..Len(displayed) :
                      /\ displayed[i].idx = i
                      /\ displayed[i].key = sorted_sources[i].key
                      /\ displayed[i].count = Len(sorted_sources[i].events)

\* C7: two groups with the same count and sensor_id, ranked by sensor_type
\* against their order of arrival, displayed and about to be selected from.
C7_TieOnSensorType ==
    /\ entry = "main"
    /\ pc = "prompt"
    /\ Len(sorted_sources) = 2
    /\ Len(sorted_sources[1].events) = Len(sorted_sources[2].events)
    /\ sorted_sources[1].key[1] = sorted_sources[2].key[1]
    /\ aggregated[1] = sorted_sources[2]
    /\ displayed[1].key = sorted_sources[1].key

\* the run has no source to select from
ZeroSources ==
    \/ entry = "select_log_source" /\ aggregated = <<>>
    \/ entry = "main" /\ queries_ok >= 1 /\ events = <<>>

\* C8, as stated: a run with zero sources to select from ends with status
\* 1, without prompting.
C8_ZeroSourcesExitOne ==
    (pc = "exited" /\ ZeroSources) => exit_status = <<1>> /\ prompts = 0

\* C8, amended: select_log_source given an empty table reports it and ends
\* with status 1 without prompting; main never passes it an empty table: a
\* run of main whose first query returns no event ends before the
\* selection, with status 0 when the line reporting the number of events
\* retrieved was printed, and through the handler of the query, with status
\* 1, when printing that line raised.
C8_EmptyTable ==
    /\ (entry = "select_log_source" /\ aggregated = <<>> /\ pc # "select") =>
          /\ pc = "exited" /\ exit_status = <<1>>
          /\ prompts = 0
          /\ stderr = <<"No log sources found.">>
    /\ (entry = "main" /\ pc = "select") => aggregated # <<>>
    /\ (entry = "main" /\ pc = "exited" /\ queries_ok >= 1 /\ events = <<>>) =>
          /\ prompts = 0 /\ sorted_sources = <<>>
          /\ IF stdout_unicode
             THEN exit_status = <<0>> /\ stderr = <<>>
             ELSE exit_status = <<1>> /\ stderr = <<"Error querying events">>

\* C8: select_log_source has ended on an empty table.
C8_EmptyTableExited ==
    /\ entry = "select_log_source"
    /\ aggregated = <<>>
    /\ pc = "exited"

\* C9: the validator ends with status 0 exactly when the endpoint returned
\* ok = true, with status 1 otherwise; a path that does not exist or is no
\* regular file ends the run before the service is initialised.
C9_ExitMirrorsValidity ==
    /\ pc = "exited" =>
          /\ exit_status \in {<<0>>, <<1>>}
          /\ exit_status = <<0>> <=>
                (val.sent # <<>> /\ val.result # <<>> /\ val.result[1].ok = B(TRUE))
    /\ val.path \in {"missing", "directory"} =>
          /\ pc \in {"read_par_file", "exited"}
          /\ val.service = <<>> /\ val.sent = <<>>

\* C10: the filtered query main builds from the selected key matches, among
\* the events that were aggregated, exactly the events of the selected
\* group.
C10_RoundTrip ==
    (entry = "main" /\ pc = "query" /\ caller = "q2") =>
        ServerSelect(events, query)
            = aggregated[KeyIndex(aggregated, selected)].events

====
